---- MODULE Spec2Model ----
(***************************************************************************)
(* Model of the Steam market history tracker.                              *)
(*                                                                         *)
(*   download_history.py  SteamHistoryDownloader: the retrying fetcher,    *)
(*                        the full download / resume loop, the sync loop,  *)
(*                        run() and run_download().                        *)
(*   process_data.py      DataProcessor._add_years_to_dates: the year      *)
(*                        inference over the parsed rows.                  *)
(*   app.py               the stop button (request_stop) and the clearing  *)
(*                        of the stop event when a run is started.         *)
(*                                                                         *)
(* The downloader is a state machine (specification Spec, and FairSpec     *)
(* with the scheduling of the worker thread); the year inference is a pure *)
(* function, applied to inputs drawn from a bounded set (YearSpec).        *)
(***************************************************************************)
EXTENDS Integers, Sequences, FiniteSets, TLC

VARIABLES
    \* ---- configuration and the remote service
    config,             \* config.json: max_retries, initial_backoff_seconds
    remote_total,       \* the remote service's current total_count
    \* ---- the store on disk
    state_file,         \* state.json
    files,              \* data_dir: offset -> page document
    latest_file,        \* offset of the file with the greatest mtime, -1: none
    \* ---- the caller-facing surface
    stop_event,         \* threading.Event shared with the caller
    log_queue,          \* kinds of the messages put on the log sink in this run
    result,             \* what run_download returned: "none", "true", "false"
    \* ---- the worker's position and locals
    pc,                 \* position of the worker
    ret,                \* which call of _fetch_batch_with_retries is active
    mode,               \* "none", "full", "sync": what run() selected
    total_count,        \* _run_full_download: total_count
    start,              \* _run_full_download / _run_sync: start
    local_total_count,  \* _run_sync: local_total_count
    pages_to_sync,      \* _run_sync: pages_to_sync
    new_items_count,    \* _run_sync: new_items_count
    live_total_count,   \* _run_sync: live_total_count, -1 before the probe returns
    sync_i,             \* _run_sync: loop index i
    fetch_start,        \* _fetch_batch_with_retries: start
    fetch_count,        \* _fetch_batch_with_retries: count
    retry_i,            \* _fetch_batch_with_retries: loop index i
    response,           \* _fetch_batch_with_retries: kind of the last response
    data,               \* the document the last fetch returned
    \* ---- history of the current run (observation only)
    attempts,           \* network requests issued by the active fetch call
    waits,              \* backoff waits of the active fetch call, in order
    all_retryable,      \* every response of the active call was 429/5xx/transport
    written,            \* offsets of the pages written in this run, in order
    state_writes,       \* number of writes of state.json in this run
    state0,             \* state.json when the run started
    files0,             \* data_dir when the run started
    outcome,            \* how the last run ended, "none" while one is running
    prev_unreached,     \* offsets a failed Sync run before this one planned
                        \* and did not reach, having written some page
    \* ---- the processing stage (process_data.py)
    now_year,           \* datetime.now().year
    transactions,       \* the parsed rows handed to _add_years_to_dates
    processed,          \* the rows it returned
    proc_pc,            \* position of DataProcessor.run, "off" when not in use
    listing,            \* DataProcessor.run: os.listdir, the .json names
    page_docs,          \* data_dir as the processor finds it: name -> content
    sorted_files,       \* DataProcessor.run: files, after the sort
    file_i              \* DataProcessor.run: position of the loop over files

dlvars == << config, remote_total, state_file, files, latest_file, stop_event,
             log_queue, result, pc, ret, mode, total_count, start,
             local_total_count, pages_to_sync, new_items_count, live_total_count, sync_i, fetch_start,
             fetch_count,
             retry_i, response, data, attempts, waits, all_retryable, written,
             state_writes, state0, files0, outcome, prev_unreached >>

dirvars == << listing, page_docs, sorted_files, file_i >>

procvars == << now_year, transactions, processed, proc_pc, dirvars >>

vars == << dlvars, procvars >>

----------------------------------------------------------------------------
(* Bounds of the model *)

\* The remote history holds at most MaxPages full pages.
MaxPages == 2

\* config.json's max_retries ranges over 0..MaxRetry.
MaxRetry == 3

\* _add_years_to_dates is applied to at most MaxRows rows.
MaxRows == 4

----------------------------------------------------------------------------
(* Program constants *)

\* batch_size = 100 in _run_full_download and _run_sync
batch_size == 100

\* self.config.get("max_retries", 5): the values the model draws
RetryChoices == 0..MaxRetry

\* self.config.get("initial_backoff_seconds", 5): the values the model draws
BackoffChoices == {1, 5}

\* The remote total_count values the model draws: page boundaries and one past.
Totals == { b * batch_size + d : b \in 0..(MaxPages - 1), d \in {0, 1} }
            \cup { MaxPages * batch_size }

\* The offsets a page can be stored under.
Offsets == { k * batch_size : k \in 0..MaxPages }

\* Kinds of outcome of one network attempt (session.get and its classification).
Responses == { "ok200",        \* 200, success flag, no login marker
               "login200",     \* 200 with 'Login' in results_html
               "nosuccess200", \* 200 without the success flag
               "auth",         \* 401 / 403
               "throttle",     \* 429 / 5xx
               "other",        \* any other status, e.g. 404
               "transport" }   \* requests.exceptions.RequestException from get

Retryable == { "throttle", "transport" }

NoStateFile == [kind |-> "missing", start |-> 0, initial_download_complete |-> FALSE]
CorruptStateFile == [kind |-> "corrupt", start |-> 0, initial_download_complete |-> FALSE]

\* state.json whose bytes do not decode as text: json.load raises
\* UnicodeDecodeError, which is neither an IOError nor a JSONDecodeError
UndecodableStateFile ==
    [kind |-> "undecodable", start |-> 0, initial_download_complete |-> FALSE]

NoFile == [present |-> FALSE, complete |-> FALSE, total_count |-> 0]

\* A page file opened with mode 'w': it exists and is truncated; nothing of the
\* new document, or only a part of it, has reached it yet.
TruncatedFile == [present |-> TRUE, complete |-> FALSE, total_count |-> 0]
NoData == [ok |-> FALSE, total_count |-> 0]

----------------------------------------------------------------------------
(* The store: state.json and the page documents *)

\* json.load(f) in run() raises an exception run() does not catch
LoadRaises(sf) == sf.kind = "undecodable"

\* json.load(f).get("start", 0), 0 when the file is missing or corrupt
ReadStartIgnoresState(sf) == 0

ReadStart(sf) == IF sf.kind = "ok" THEN sf.start ELSE 0

\* state.get("initial_download_complete", False), state = {} when unreadable
ReadCompleteAlwaysFalse(sf) == FALSE

ReadComplete(sf) == IF sf.kind = "ok" THEN sf.initial_download_complete ELSE FALSE

\* json.dump({"start": start, "initial_download_complete": False}, f)
ProgressStateMarksComplete(s) ==
    [kind |-> "ok", start |-> s, initial_download_complete |-> TRUE]

ProgressState(s) ==
    [kind |-> "ok", start |-> s, initial_download_complete |-> FALSE]

\* json.dump({"start": start, "initial_download_complete": True}, f)
CompleteStateLeavesFlag(s) ==
    [kind |-> "ok", start |-> s, initial_download_complete |-> FALSE]

CompleteState(s) ==
    [kind |-> "ok", start |-> s, initial_download_complete |-> TRUE]

\* start += batch_size
NextStartOffByOne(s) == s + batch_size + 1

NextStart(s) == s + batch_size

\* _get_last_local_total_count: total_count of the most recently modified file
LastLocalTotalCount ==
    IF latest_file = -1 THEN 0 ELSE files[latest_file].total_count

\* new_items_count = live_total_count - local_total_count
NewItemsCountIgnoresLocal(live, local) == live

NewItemsCount(live, local) == live - local

\* math.ceil(new_items_count / batch_size), for new_items_count > 0
PagesToSyncRoundsDown(n) == n \div batch_size

PagesToSync(n) == (n + batch_size - 1) \div batch_size

\* wait_time = backoff_factor * (2 ** i)
WaitTimeLinear(i) == config.initial_backoff_seconds * (i + 1)

WaitTime(i) == config.initial_backoff_seconds * (2 ^ i)

\* self.stop_event.is_set(), at each place the engine polls the event
StopEventIsIgnored == FALSE

StopEventIsSet == stop_event

\* if response.status_code == 200: ... no 'Login' in results_html ...
\* if data.get("success"): return data
ReturnsDataOnAny200(r) == r \in {"ok200", "login200"}

ReturnsData(r) == r = "ok200"

\* if total_count == 0: ... return
NoTransactionsNeverReturns(t) == FALSE

NoTransactions(t) == t = 0

\* start = i * batch_size
SyncOffsetStaysAtZero(i) == 0

SyncOffset(i) == i * batch_size

\* The page document a successful request returns: the remote total at that time.
\* Its rows are the remote slice [start, start + count) of a history of that size.
Document == [ok |-> TRUE, total_count |-> remote_total]

\* open(filepath, 'w'): the file is created or truncated
OpenFile(offset) ==
    /\ files' = [files EXCEPT ![offset] = TruncatedFile]
    /\ latest_file' = offset

\* json.dump(data, f, indent=2) and the close of the file
WriteFile(offset, doc) ==
    /\ files' = [files EXCEPT ![offset] =
                    [present |-> TRUE, complete |-> TRUE, total_count |-> doc.total_count]]
    /\ latest_file' = offset
    /\ written' = Append(written, offset)

----------------------------------------------------------------------------
(* run_download: how a run ends *)

EndRun(res, how, msgs) ==
    /\ pc' = "idle"
    /\ result' = res
    /\ outcome' = how
    /\ log_queue' = log_queue \cup msgs

\* run() returned: run_download returns True
ReturnTrue(how, msgs) == EndRun("true", how, msgs)

\* except StopException: return True
RaiseStopException == EndRun("true", "stopped", {})

\* raise ConnectionError(...), caught by run_download's except Exception:
\* the fatal message is logged and False returned
RaiseConnectionErrorSavesState ==
    /\ EndRun("false", "failed", {"fatal"})
    /\ state_file' = ProgressState(NextStart(fetch_start))

RaiseConnectionError ==
    /\ EndRun("false", "failed", {"fatal"})
    /\ UNCHANGED state_file

locals == << total_count, start, local_total_count, pages_to_sync,
            new_items_count, live_total_count, sync_i >>
fetchlocals == << fetch_start, fetch_count, retry_i, response, data >>
fetchhist == << attempts, waits, all_retryable >>
store == << state_file, files, latest_file >>
runhist == << written, state_writes, state0, files0, prev_unreached >>
env == << config, remote_total >>

\* A call of _fetch_batch_with_retries(start, count) from the place `from`
CallFetch(from, s, c) ==
    /\ pc' = "fetch_head"
    /\ ret' = from
    /\ fetch_start' = s
    /\ fetch_count' = c
    /\ retry_i' = 0
    /\ response' = "none"
    /\ data' = NoData
    /\ attempts' = 0
    /\ waits' = << >>
    /\ all_retryable' = TRUE

----------------------------------------------------------------------------
(* The caller: app.py / cli.py *)

\* save_and_run_threaded: stop_event.clear(), then run_download on a worker;
\* SteamHistoryDownloader.__init__ puts its messages on the log sink.
StartRun ==
    /\ pc = "idle"
    /\ pc' = "run"
    /\ stop_event' = FALSE
    /\ log_queue' = {"initializing"}
    /\ result' = "none"
    /\ UNCHANGED << env, store, ret, mode, locals, fetchlocals, fetchhist,
                    runhist, outcome, procvars >>

\* request_stop: the stop button, enabled while a run is in progress
RequestStop ==
    /\ pc # "idle"
    /\ ~stop_event
    /\ stop_event' = TRUE
    /\ log_queue' = log_queue \cup {"stop_requested"}
    /\ UNCHANGED << env, store, result, pc, ret, mode, locals, fetchlocals,
                    fetchhist, runhist, outcome, procvars >>

\* New transactions appear on the remote service (its history only grows).
RemoteGrows ==
    /\ \E t \in Totals : t > remote_total /\ remote_total' = t
    /\ UNCHANGED << config, store, stop_event, log_queue, result, pc, ret, mode,
                    locals, fetchlocals, fetchhist, runhist, outcome, procvars >>

----------------------------------------------------------------------------
(* SteamHistoryDownloader._fetch_batch_with_retries *)

\* for i in range(retries): if self.stop_event.is_set(): raise StopException()
\* ... and, the loop over, raise ConnectionError
FetchLoopHead ==
    /\ pc = "fetch_head"
    /\ \/ /\ retry_i >= config.max_retries
          /\ RaiseConnectionError
       \/ /\ retry_i < config.max_retries
          /\ StopEventIsSet
          /\ RaiseStopException
          /\ UNCHANGED state_file
       \/ /\ retry_i < config.max_retries
          /\ ~StopEventIsSet
          /\ pc' = "fetch_wait"
          /\ UNCHANGED << state_file, result, outcome, log_queue >>
    /\ UNCHANGED << env, files, latest_file, stop_event, ret, mode, locals,
                    fetchlocals, fetchhist, runhist, procvars >>

\* self.stop_event.wait(2); if self.stop_event.is_set(): raise StopException()
FetchPreWait ==
    /\ pc = "fetch_wait"
    /\ \/ /\ StopEventIsSet
          /\ RaiseStopException
       \/ /\ ~StopEventIsSet
          /\ pc' = "fetch_get"
          /\ UNCHANGED << result, outcome, log_queue >>
    /\ UNCHANGED << env, store, stop_event, ret, mode, locals, fetchlocals,
                    fetchhist, runhist, procvars >>

\* response = self.session.get(...), its classification, and the backoff wait
FetchRequest ==
    /\ pc = "fetch_get"
    /\ \E r \in Responses :
         /\ response' = r
         /\ attempts' = attempts + 1
         /\ all_retryable' = (all_retryable /\ r \in Retryable)
         /\ \/ /\ ReturnsData(r)
               /\ data' = Document
               /\ pc' = ret
               /\ UNCHANGED << retry_i, waits, log_queue >>
            \/ /\ ~ReturnsData(r)
               /\ waits' = Append(waits, WaitTime(retry_i))
               /\ log_queue' = log_queue \cup {"retrying"}   \* lines 82 and 86
               /\ retry_i' = retry_i + 1
               /\ pc' = "fetch_head"
               /\ UNCHANGED data
    /\ UNCHANGED << env, store, stop_event, result, ret, mode, locals,
                    fetch_start, fetch_count, runhist, outcome, procvars >>

----------------------------------------------------------------------------
(* SteamHistoryDownloader.run, _run_full_download, _run_sync *)

NoStateMessage == IF state_file.kind = "ok" THEN {} ELSE {"no_state_file"}

\* The offsets the Sync run that just ended planned and did not reach, when it
\* was halted by a fetch failure after writing some page.
Unreached ==
    IF mode = "sync" /\ outcome = "failed" /\ ret = "sync_page" /\ written # << >>
    THEN { k * batch_size : k \in sync_i..(pages_to_sync - 1) }
    ELSE {}

\* A run begins: its locals do not exist yet, its history is empty.
BeginRun(m) ==
    /\ mode' = m
    /\ outcome' = "none"
    /\ total_count' = 0 /\ start' = 0
    /\ pages_to_sync' = 0 /\ new_items_count' = 0 /\ sync_i' = 0
    /\ live_total_count' = -1
    /\ written' = << >> /\ state_writes' = 0
    /\ state0' = state_file /\ files0' = files
    /\ prev_unreached' = Unreached

\* run(): json.load raises an exception that `except (IOError,
\* json.JSONDecodeError)` does not catch; run_download's `except Exception`
\* logs the fatal message and returns False
RunRaises ==
    /\ pc = "run"
    /\ LoadRaises(state_file)
    /\ EndRun("false", "failed", {"fatal"})
    /\ UNCHANGED << env, store, stop_event, ret, mode, locals, fetchlocals,
                    fetchhist, runhist, procvars >>

\* run(): the state file says the initial download is not complete;
\* _run_full_download starts with the 1-item probe
RunFull ==
    /\ pc = "run"
    /\ ~LoadRaises(state_file)
    /\ ~ReadComplete(state_file)
    /\ BeginRun("full")
    /\ local_total_count' = 0
    /\ log_queue' = log_queue \cup NoStateMessage \cup {"full_download"}
    /\ CallFetch("full_probe", 0, 1)
    /\ UNCHANGED << env, store, stop_event, result, procvars >>

\* run(): initial_download_complete is set; _run_sync reads the local count
\* and starts with the 1-item probe
RunSync ==
    /\ pc = "run"
    /\ ReadComplete(state_file)
    /\ BeginRun("sync")
    /\ local_total_count' = LastLocalTotalCount
    /\ log_queue' = log_queue \cup {"efficient_sync"}
                      \cup (IF LastLocalTotalCount = 0 THEN {"no_local_files"} ELSE {})
    /\ CallFetch("sync_probe", 0, 1)
    /\ UNCHANGED << env, store, stop_event, result, procvars >>

\* total_count = initial_data.get("total_count", 0); the early return on 0;
\* the resume offset read from state.json
FullProbed ==
    /\ pc = "full_probe"
    /\ total_count' = data.total_count
    /\ \/ /\ NoTransactions(data.total_count)
          /\ ReturnTrue("done", {"no_transactions"})
          /\ UNCHANGED start
       \/ /\ ~NoTransactions(data.total_count)
          /\ start' = ReadStart(state_file)
          /\ pc' = "full_loop"
          /\ log_queue' = log_queue \cup {"found_total", "resuming"}
          /\ UNCHANGED << result, outcome >>
    /\ UNCHANGED << env, store, stop_event, ret, mode, local_total_count,
                    pages_to_sync, new_items_count, live_total_count, sync_i, fetchlocals,
                    fetchhist, runhist, procvars >>

\* while start < total_count: the stop check, the call of the fetcher;
\* the loop over, the completion mark
FullLoop ==
    /\ pc = "full_loop"
    /\ \/ /\ start < total_count
          /\ StopEventIsSet
          /\ ReturnTrue("paused", {"paused"})
          /\ UNCHANGED << state_file, state_writes, ret, fetchlocals, fetchhist >>
       \/ /\ start < total_count
          /\ ~StopEventIsSet
          /\ CallFetch("full_page", start, batch_size)
          /\ UNCHANGED << state_file, state_writes, result, outcome, log_queue >>
       \/ /\ start >= total_count
          /\ state_file' = CompleteState(start)
          /\ state_writes' = state_writes + 1
          /\ ReturnTrue("done", {"full_complete"})
          /\ UNCHANGED << ret, fetchlocals, fetchhist >>
    /\ UNCHANGED << env, files, latest_file, stop_event, mode, locals, written,
                    state0, files0, prev_unreached, procvars >>

\* filename = ...; with open(filepath, 'w') as f:
FullOpenPage ==
    /\ pc = "full_page"
    /\ OpenFile(start)
    /\ pc' = "full_dump"
    /\ UNCHANGED << env, state_file, stop_event, log_queue, result, ret, mode,
                    locals, fetchlocals, fetchhist, runhist, outcome, procvars >>

\* json.dump(data, f, indent=2), the close, and the "Saved ..." message
FullWritePage ==
    /\ pc = "full_dump"
    /\ WriteFile(start, data)
    /\ log_queue' = log_queue \cup {"saved"}
    /\ pc' = "full_save"
    /\ UNCHANGED << env, state_file, stop_event, result, ret, mode, locals,
                    fetchlocals, fetchhist, state_writes, state0, files0,
                    prev_unreached, outcome, procvars >>

\* start += batch_size; json.dump({"start": start, ...: False}, f)
FullSaveState ==
    /\ pc = "full_save"
    /\ start' = NextStart(start)
    /\ state_file' = ProgressState(NextStart(start))
    /\ state_writes' = state_writes + 1
    /\ pc' = "full_loop"
    /\ UNCHANGED << env, files, latest_file, stop_event, log_queue, result, ret,
                    mode, total_count, local_total_count, pages_to_sync,
                    new_items_count, live_total_count, sync_i, fetchlocals, fetchhist, written,
                    state0, files0, prev_unreached, outcome, procvars >>

\* live_total_count, new_items_count, the up-to-date return, pages_to_sync
SyncProbed ==
    /\ pc = "sync_probe"
    /\ live_total_count' = data.total_count
    /\ new_items_count' = NewItemsCount(data.total_count, local_total_count)
    /\ \/ /\ new_items_count' <= 0
          /\ ReturnTrue("done", {"counts", "up_to_date"})
          /\ UNCHANGED << pages_to_sync, sync_i >>
       \/ /\ new_items_count' > 0
          /\ pages_to_sync' = PagesToSync(new_items_count')
          /\ sync_i' = 0
          /\ pc' = "sync_loop"
          /\ log_queue' = log_queue \cup {"counts", "found_new", "refreshing"}
          /\ UNCHANGED << result, outcome >>
    /\ UNCHANGED << env, store, stop_event, ret, mode, total_count, start,
                    local_total_count, fetchlocals, fetchhist, runhist, procvars >>

\* for i in range(pages_to_sync): if self.stop_event.is_set(): break
\* ... start = i * batch_size and the call of the fetcher; "Sync Complete"
SyncLoop ==
    /\ pc = "sync_loop"
    /\ \/ /\ sync_i < pages_to_sync
          /\ StopEventIsSet
          /\ ReturnTrue("paused", {"sync_complete"})
          /\ UNCHANGED << start, ret, fetchlocals, fetchhist >>
       \/ /\ sync_i < pages_to_sync
          /\ ~StopEventIsSet
          /\ start' = SyncOffset(sync_i)
          /\ CallFetch("sync_page", SyncOffset(sync_i), batch_size)
          /\ UNCHANGED << result, outcome, log_queue >>
       \/ /\ sync_i >= pages_to_sync
          /\ ReturnTrue("done", {"sync_complete"})
          /\ UNCHANGED << start, ret, fetchlocals, fetchhist >>
    /\ UNCHANGED << env, store, stop_event, mode, total_count, local_total_count,
                    pages_to_sync, new_items_count, live_total_count, sync_i, runhist, procvars >>

\* filename = ...; with open(filepath, 'w') as f:
SyncOpenPage ==
    /\ pc = "sync_page"
    /\ OpenFile(start)
    /\ pc' = "sync_dump"
    /\ UNCHANGED << env, state_file, stop_event, log_queue, result, ret, mode,
                    locals, fetchlocals, fetchhist, runhist, outcome, procvars >>

\* json.dump(data, f, indent=2), the close, the "Synced ..." message, and the
\* loop's next index
SyncWritePage ==
    /\ pc = "sync_dump"
    /\ WriteFile(start, data)
    /\ log_queue' = log_queue \cup {"synced"}
    /\ sync_i' = sync_i + 1
    /\ pc' = "sync_loop"
    /\ UNCHANGED << env, state_file, stop_event, result, ret, mode, total_count,
                    start, local_total_count, pages_to_sync, new_items_count, live_total_count,
                    fetchlocals, fetchhist, state_writes, state0, files0,
                    prev_unreached, outcome, procvars >>

----------------------------------------------------------------------------
(* The downloader's specification *)

InitDownloader ==
    /\ config \in [max_retries : RetryChoices, initial_backoff_seconds : BackoffChoices]
    /\ remote_total \in Totals
    /\ state_file \in {NoStateFile, CorruptStateFile, UndecodableStateFile}
                        \cup { ProgressState(o) : o \in Offsets \ {0} }
    /\ files = [o \in Offsets |-> NoFile]
    /\ latest_file = -1
    /\ stop_event = FALSE
    /\ log_queue = {}
    /\ result = "none"
    /\ pc = "idle"
    /\ ret = "none"
    /\ mode = "none"
    /\ total_count = 0 /\ start = 0 /\ local_total_count = 0
    /\ pages_to_sync = 0 /\ new_items_count = 0 /\ sync_i = 0
    /\ live_total_count = -1
    /\ fetch_start = 0 /\ fetch_count = 0 /\ retry_i = 0
    /\ response = "none" /\ data = NoData
    /\ attempts = 0 /\ waits = << >> /\ all_retryable = TRUE
    /\ written = << >> /\ state_writes = 0
    /\ state0 = state_file /\ files0 = files
    /\ outcome = "none" /\ prev_unreached = {}

\* The processor has not listed the data directory.
NoListing ==
    /\ listing = << >>
    /\ page_docs = << >>
    /\ sorted_files = << >>
    /\ file_i = 0

ProcessorIdle ==
    /\ NoListing
    /\ now_year = 0
    /\ transactions = << >>
    /\ processed = << >>
    /\ proc_pc = "off"

Init == InitDownloader /\ ProcessorIdle

\* The steps of the worker thread
Worker ==
    \/ RunRaises \/ RunFull \/ RunSync
    \/ FetchLoopHead \/ FetchPreWait \/ FetchRequest
    \/ FullProbed \/ FullLoop \/ FullOpenPage \/ FullWritePage \/ FullSaveState
    \/ SyncProbed \/ SyncLoop \/ SyncOpenPage \/ SyncWritePage

Next == StartRun \/ RequestStop \/ RemoteGrows \/ Worker

Spec == Init /\ [][Next]_vars

\* The worker is a thread of its own: every request has a timeout and every wait
\* is bounded, so a step that is enabled is eventually taken.
FairSpec == Spec /\ WF_vars(Worker)

----------------------------------------------------------------------------
(* process_data.py: DataProcessor._add_years_to_dates *)

(* A date text is the sequence of its pieces: words, and " " for one space
   character.  "5 Mar" is << "5", " ", "Mar" >>, "N/A" is << "N/A" >> and the
   empty string is << >>. *)

\* month_map
month_map ==
    [m \in {"Jan", "Feb", "Mar", "Apr", "May", "Jun", "Jul", "Aug", "Sep", "Oct",
            "Nov", "Dec"} |->
        CASE m = "Jan" -> 1  [] m = "Feb" -> 2  [] m = "Mar" -> 3
          [] m = "Apr" -> 4  [] m = "May" -> 5  [] m = "Jun" -> 6
          [] m = "Jul" -> 7  [] m = "Aug" -> 8  [] m = "Sep" -> 9
          [] m = "Oct" -> 10 [] m = "Nov" -> 11 [] m = "Dec" -> 12]

\* month_map.get(token): 0 stands for None
MonthMapGet(token) == IF token \in DOMAIN month_map THEN month_map[token] ELSE 0

\* str.split(): the words, whitespace dropped
SplitWhitespace(text) == SelectSeq(text, LAMBDA p : p # " ")

\* str.split(' '): the fields between single spaces, "" between adjacent spaces
SplitSpace(text) ==
    LET F[n \in 0..Len(text)] ==
            IF n = 0 THEN << "" >>
            ELSE IF text[n] = " " THEN Append(F[n - 1], "")
                 ELSE [F[n - 1] EXCEPT ![Len(F[n - 1])] = text[n]]
    IN  F[Len(text)]

\* The first pass's parse of "Acted On Date" (lines 83-94): the month, 0 for None
ActedOnMonth(text) ==
    IF text = << >> \/ text = << "N/A" >> \/ Len(SplitWhitespace(text)) < 2
    THEN 0
    ELSE MonthMapGet(SplitSpace(text)[2])

\* if current_acted_on_month > last_acted_on_month: current_acted_on_year -= 1
YearRollsBackOnEqual(month, last) == month >= last

YearRollsBack(month, last) == month > last

\* transaction["inferred_acted_on_year"] = None; continue
\* (the accumulator: the current year, the last month, the years given so far)
SkipRowForgetsLastMonth(before) ==
    [before EXCEPT !.out = Append(@, 0), !.last = 13]

SkipRow(before) == [before EXCEPT !.out = Append(@, 0)]

\* The first pass: the inferred_acted_on_year of every row, 0 for None
InferredYears(rows, year_now) ==
    LET F[n \in 0..Len(rows)] ==
            IF n = 0 THEN [year |-> year_now, last |-> 13, out |-> << >>]
            ELSE LET before == F[n - 1]
                     month  == ActedOnMonth(rows[n].acted_on_date)
                     year   == IF YearRollsBack(month, before.last)
                               THEN before.year - 1 ELSE before.year
                 IN  IF month = 0
                     THEN SkipRow(before)
                     ELSE [year |-> year, last |-> month, out |-> Append(before.out, year)]
    IN  F[Len(rows)].out

\* listed_on_year = acted_on_year - 1 if listed_on_month > acted_on_month
\*                  else acted_on_year
ListedOnYearOnGreaterOrEqual(acted_on_year, listed_on_month, acted_on_month) ==
    IF listed_on_month >= acted_on_month THEN acted_on_year - 1 ELSE acted_on_year

ListedOnYear(acted_on_year, listed_on_month, acted_on_month) ==
    IF listed_on_month > acted_on_month THEN acted_on_year - 1 ELSE acted_on_year

\* The second pass on one row: the two output date fields.  year 0: the raw
\* text, no year appended.
FinalizeRow(row, acted_on_year) ==
    LET acted  == row.acted_on_date
        listed == row.listed_on_date
        both   == /\ listed # << "N/A" >>
                  /\ Len(SplitWhitespace(acted)) > 1
                  /\ Len(SplitWhitespace(listed)) > 1
        acted_on_month  == MonthMapGet(SplitSpace(acted)[2])
        listed_on_month == MonthMapGet(SplitSpace(listed)[2])
        listed_on_year  == ListedOnYear(acted_on_year, listed_on_month,
                                        acted_on_month)
    IN  [sold_purchased_date |-> [text |-> acted, year |-> acted_on_year],
         listed_date |->
            IF acted_on_year # 0 /\ both /\ acted_on_month # 0 /\ listed_on_month # 0
            THEN [text |-> listed, year |-> listed_on_year]
            ELSE [text |-> listed, year |-> 0]]

\* _add_years_to_dates(transactions)
AddYearsToDates(rows, year_now) ==
    LET years == InferredYears(rows, year_now)
    IN  [n \in 1..Len(rows) |-> FinalizeRow(rows[n], years[n])]

\* processed_transactions = self._add_years_to_dates(all_transactions)
AddYears ==
    /\ proc_pc = "ready"
    /\ processed' = AddYearsToDates(transactions, now_year)
    /\ proc_pc' = "done"
    /\ UNCHANGED << now_year, transactions, dirvars, dlvars >>

\* The inputs: date texts and rows
DateText(m) == << "5", " ", m >>

ActedOnTexts == { DateText("Jan"), DateText("Mar"), DateText("Nov"), DateText("Dec"),
                  << "N/A" >>, DateText("Foo") }

ListedOnTexts == { << "N/A" >>, DateText("Jun") }

SampleRows == [acted_on_date : ActedOnTexts, listed_on_date : ListedOnTexts]

YearsNow == {2025, 2026}

DownloaderOff ==
    /\ InitDownloader
    /\ config = [max_retries |-> 0, initial_backoff_seconds |-> 1]
    /\ remote_total = 0
    /\ state_file = NoStateFile

InitYears ==
    /\ DownloaderOff
    /\ NoListing
    /\ now_year \in YearsNow
    /\ transactions \in UNION { [1..n -> SampleRows] : n \in 0..MaxRows }
    /\ processed = << >>
    /\ proc_pc = "ready"

NextYears == AddYears

YearSpec == InitYears /\ [][NextYears]_vars

\* A second set of inputs: the texts the first pass does not parse (empty, the
\* N/A fallback, one token, an unknown month, two spaces before the month) and
\* listed-on months above, equal to and below the acted-on months.
MaxDateRows == 3

UnparsedTexts == { << >>, << "N/A" >>, << "Mar" >>, DateText("Foo"),
                   << "5", " ", " ", "Mar" >> }

DateRows == [acted_on_date : { DateText("Mar"), DateText("Dec") } \cup UnparsedTexts,
             listed_on_date : { << "N/A" >>, DateText("Jun"), DateText("Mar") }]

InitDates ==
    /\ DownloaderOff
    /\ NoListing
    /\ now_year \in YearsNow
    /\ transactions \in UNION { [1..n -> DateRows] : n \in 0..MaxDateRows }
    /\ processed = << >>
    /\ proc_pc = "ready"

DateSpec == InitDates /\ [][NextYears]_vars

----------------------------------------------------------------------------
(* process_data.py: DataProcessor.run and _parse_html_results *)

(* A file name is the first run of digits in it, a sequence of digits:
   transactions_000100.json is << 0, 0, 0, 1, 0, 0 >> and a legacy name
   transactions_200.json is << 2, 0, 0 >>. *)

\* The data directory holds at most MaxFiles page files.
MaxFiles == 2

\* int(re.search(r'\d+', x).group())
SortKey(name) ==
    LET F[n \in 0..Len(name)] == IF n = 0 THEN 0 ELSE F[n - 1] * 10 + name[n]
    IN  F[Len(name)]

\* files.sort(key=...): a stable sort, ascending by the key
SortFiles(names) ==
    LET Insert(sorted, x) ==
            LET before == SelectSeq(sorted, LAMBDA y : SortKey(y) <= SortKey(x))
                after  == SelectSeq(sorted, LAMBDA y : SortKey(y) > SortKey(x))
            IN  before \o << x >> \o after
        F[n \in 0..Len(names)] ==
            IF n = 0 THEN << >> ELSE Insert(F[n - 1], names[n])
    IN  F[Len(names)]

\* str.strip() of a date text: the spaces at its two ends go
Strip(text) ==
    LET inner == { k \in 1..Len(text) : text[k] # " " }
    IN  IF inner = {} THEN << >>
        ELSE LET lo == CHOOSE k \in inner : \A l \in inner : k <= l
                 hi == CHOOSE k \in inner : \A l \in inner : l <= k
             IN  SubSeq(text, lo, hi)

\* One market_listing_row: acted_on_date and listed_on_date from its date divs,
\* "N/A" for a div that is not there
ParseRow(row) ==
    [acted_on_date  |-> IF Len(row.dates) > 0 THEN Strip(row.dates[1])
                        ELSE << "N/A" >>,
     listed_on_date |-> IF Len(row.dates) > 1 THEN Strip(row.dates[2])
                        ELSE << "N/A" >>]

\* _parse_html_results(html_content): one transaction per row, in document order
ParseHtmlResults(html) == [k \in 1..Len(html) |-> ParseRow(html[k])]

\* The page files the model draws: their names ...
FileNames == { << 0, 0, 0, 0, 0, 0 >>, << 0, 0, 0, 1, 0, 0 >>,
               << 2, 0, 0 >>, << 1, 0, 0, 0 >> }

\* ... the rows of their results_html, as the sequences of their date divs ...
RowMarJun == [dates |-> << << " ", "5", " ", "Mar", " " >>, DateText("Jun") >>]
RowDec    == [dates |-> << DateText("Dec") >>]
RowNoDate == [dates |-> << >>]

\* ... and their contents: a page document, a file that is not JSON (json.load
\* raises JSONDecodeError), a file whose bytes do not decode as text (json.load
\* raises UnicodeDecodeError)
PageContents ==
    { [kind |-> "ok", results_html |-> h] :
          h \in { << >>, << RowMarJun >>, << RowDec >>,
                  << RowNoDate, RowMarJun >>, << RowMarJun, RowDec >> } }
    \cup { [kind |-> k, results_html |-> << >>] : k \in {"invalid_json", "undecodable"} }

\* files = [f for f in os.listdir(...) if f.endswith('.json')]; files.sort(...);
\* if not files: return
ListFiles ==
    /\ proc_pc = "start"
    /\ sorted_files' = SortFiles(listing)
    /\ file_i' = 1
    /\ proc_pc' = IF listing = << >> THEN "returned" ELSE "read"
    /\ UNCHANGED << now_year, transactions, processed, listing, page_docs, dlvars >>

\* for filename in files: json.load, _parse_html_results, extend; a
\* JSONDecodeError or IOError is reported and the file skipped; any other
\* exception leaves run()
ReadFile ==
    /\ proc_pc = "read"
    /\ file_i <= Len(sorted_files)
    /\ LET doc == page_docs[sorted_files[file_i]]
       IN  \/ /\ doc.kind = "ok"
              /\ transactions' = transactions \o ParseHtmlResults(doc.results_html)
              /\ file_i' = file_i + 1
              /\ UNCHANGED proc_pc
           \/ /\ doc.kind = "invalid_json"
              /\ file_i' = file_i + 1
              /\ UNCHANGED << transactions, proc_pc >>
           \/ /\ doc.kind = "undecodable"
              /\ proc_pc' = "raised"
              /\ UNCHANGED << transactions, file_i >>
    /\ UNCHANGED << now_year, processed, listing, page_docs, sorted_files, dlvars >>

\* the loop over: if not all_transactions: return
FilesRead ==
    /\ proc_pc = "read"
    /\ file_i > Len(sorted_files)
    /\ proc_pc' = IF transactions = << >> THEN "returned" ELSE "ready"
    /\ UNCHANGED << now_year, transactions, processed, dirvars, dlvars >>

\* The data directory as the processor finds it (SteamHistoryDownloader.__init__
\* has created it).
InitProc ==
    /\ DownloaderOff
    /\ now_year \in YearsNow
    /\ \E n \in 0..MaxFiles :
          /\ listing \in { l \in [1..n -> FileNames] :
                             \A i, j \in 1..n : i # j => l[i] # l[j] }
          /\ page_docs \in [{ listing[i] : i \in 1..n } -> PageContents]
    /\ sorted_files = << >>
    /\ file_i = 0
    /\ transactions = << >>
    /\ processed = << >>
    /\ proc_pc = "start"

NextProc == ListFiles \/ ReadFile \/ FilesRead \/ AddYears

ProcSpec == InitProc /\ [][NextProc]_vars

----------------------------------------------------------------------------
(* Properties of the downloader *)

FetchPcs == {"fetch_head", "fetch_wait", "fetch_get"}

\* A run has ended and its result is with the caller.
Ended == pc = "idle" /\ outcome # "none"

WrittenSet == { written[j] : j \in 1..Len(written) }

\* C1: when a Sync run wrote some but not all of its pages and was halted by a
\* fetch failure, the next Sync run that ends normally has re-fetched and
\* overwritten every page the failed run did not reach.
C1_NextSyncRecoversUnreached ==
    (Ended /\ mode = "sync" /\ outcome = "done" /\ prev_unreached # {})
        => prev_unreached \subseteq WrittenSet

\* The offset of a FullDownload run at its end: the loop's offset, or the
\* persisted resume offset when the run returned before loading it.
OffsetAtEnd == IF total_count = 0 THEN ReadStart(state_file) ELSE start

FullRanToEnd ==
    Ended /\ mode = "full" /\ outcome = "done" /\ ~stop_event

\* C2 (as stated): a FullDownload run without failure or cancellation whose
\* offset is >= total_count at its end has persisted
\* initial_download_complete = true, a remote total_count of 0 included.
C2_CompleteWheneverOffsetReachesTotal ==
    (FullRanToEnd /\ OffsetAtEnd >= total_count)
        => ReadComplete(state_file)

\* C2 (amended): every FullDownload run terminates; one without failure or
\* cancellation whose total_count is positive ends with offset >= total_count
\* and initial_download_complete = true persisted; one whose probe reported a
\* total_count of 0 ends leaving the persisted state as it was.
C2_FullDownloadTerminatesAndCompletes ==
    /\ [](FullRanToEnd /\ total_count > 0
            => /\ start >= total_count
               /\ state_file = [kind |-> "ok", start |-> start,
                                initial_download_complete |-> TRUE])
    /\ [](FullRanToEnd /\ total_count = 0 => state_file = state0)
    /\ ((mode = "full" /\ pc \notin {"idle", "run"}) ~> (pc = "idle"))

\* A run resumed from an offset already >= total_count has run to its end.
C2_Witness ==
    /\ FullRanToEnd
    /\ total_count > 0
    /\ state0.kind = "ok"
    /\ ReadStart(state0) >= total_count
    /\ written = << >>
    /\ ReadComplete(state_file)

Interrupted == {"stopped", "paused", "failed"}

\* C3: initial_download_complete = true is persisted only by the FullDownload
\* loop's exit with offset >= total_count; a FullDownload run interrupted by
\* cancellation or by a fetch failure leaves the flag false, and the run after
\* it selects FullDownload again.
C3_CompleteOnlyOnLoopExit ==
    /\ [][ (~ReadComplete(state_file) /\ ReadComplete(state_file'))
              => (pc = "full_loop" /\ mode = "full" /\ start >= total_count) ]_vars
    /\ [](Ended /\ mode = "full" /\ outcome \in Interrupted
              => ~ReadComplete(state_file))
    /\ [][ (pc = "run" /\ pc' # "run" /\ mode = "full" /\ outcome \in Interrupted)
              => mode' = "full" ]_vars

\* A run after an interrupted FullDownload that had written page 0 has
\* selected FullDownload again.
C3_Witness ==
    /\ pc = "fetch_head"
    /\ ret = "full_probe"
    /\ mode = "full"
    /\ files[0].present
    /\ state0 = [kind |-> "ok", start |-> batch_size, initial_download_complete |-> FALSE]

Cancelled == {"stopped", "paused"}

\* C4: when a FullDownload run is ended by a cancellation, the persisted
\* next_offset is the offset of the last page the run wrote plus the page size,
\* or the state from before the run if it wrote none; the page in flight when
\* the cancellation was observed is the next to fetch, never counted as done.
\* (A run that the cancellation reached too late to stop, and that failed, is
\* included.)
C4_NextOffsetIsLastDurablyWritten ==
    (Ended /\ mode = "full"
       /\ (outcome \in Cancelled \/ (stop_event /\ outcome = "failed")))
        => /\ IF written = << >>
              THEN state_file = state0
              ELSE state_file = [kind |-> "ok",
                                 start |-> written[Len(written)] + batch_size,
                                 initial_download_complete |-> FALSE]
           /\ (outcome = "stopped" /\ ret = "full_page"
                  => ReadStart(state_file) = fetch_start)

\* A cancellation observed inside the fetch of a page, after a page was written.
C4_Witness ==
    /\ Ended
    /\ mode = "full"
    /\ outcome = "stopped"
    /\ ret = "full_page"
    /\ written # << >>
    /\ attempts > 0

\* C5: a Sync run whose live total count is not above the local one writes no
\* page and no state, ends normally (run_download returns True, nothing fatal is
\* logged) and leaves the store as it found it.
C5_UpToDateSyncWritesNothing ==
    (pc # "run" /\ mode = "sync" /\ live_total_count >= 0
       /\ live_total_count <= local_total_count)
        => /\ pc = "idle"
           /\ outcome = "done"
           /\ result = "true"
           /\ "fatal" \notin log_queue
           /\ written = << >>
           /\ state_writes = 0
           /\ files = files0
           /\ state_file = state0

\* A Sync run has found the live count equal to a positive local count.
C5_Witness ==
    /\ Ended
    /\ mode = "sync"
    /\ live_total_count = local_total_count
    /\ local_total_count > 0
    /\ "up_to_date" \in log_queue

\* The backoff schedule: initialBackoffSeconds * 2^i after attempt i = 0, 1, ...
ExpectedWaits(n) ==
    [k \in 1..n |-> config.initial_backoff_seconds * (2 ^ (k - 1))]

\* C6: a fetch call whose every attempt received 429, 5xx or a transport error,
\* with no cancellation, makes exactly max_retries network attempts, waits
\* initialBackoffSeconds * 2^i after attempt i, and then fails
\* (RetriesExhausted: run_download returns False).
C6_RetryableFailuresExhaustTheBudget ==
    /\ (all_retryable /\ pc \notin {"run"}) =>
          /\ attempts <= config.max_retries
          /\ pc \in FetchPcs \cup {"idle"}
    /\ (Ended /\ all_retryable /\ attempts > 0 /\ ~stop_event) =>
          /\ outcome = "failed"
          /\ result = "false"
          /\ attempts = config.max_retries
          /\ waits = ExpectedWaits(config.max_retries)

\* max_retries = 3 and initial_backoff_seconds = 1: 3 attempts, waits 1, 2, 4.
C6_Witness ==
    /\ Ended
    /\ outcome = "failed"
    /\ all_retryable
    /\ ~stop_event
    /\ config = [max_retries |-> 3, initial_backoff_seconds |-> 1]
    /\ attempts = 3
    /\ waits = << 1, 2, 4 >>

\* C7: once an attempt has received 401 or 403 the fetch has failed: the run
\* has stopped with a failure, and neither a backoff wait nor a further network
\* attempt follows that response.
C7_AuthFailureIsNotRetried ==
    response = "auth" => (pc = "idle" /\ outcome = "failed" /\ result = "false")

\* C8: a run during which the cancellation was raised ends as a non-error
\* stop: run_download returns True and no fatal message is logged.  (Stated
\* for max_retries >= 1, where every fetch call does poll the signal.)
C8_CancelledRunIsNotAnError ==
    (Ended /\ stop_event /\ config.max_retries >= 1)
        => (result = "true" /\ "fatal" \notin log_queue)

\* C9: a terminal fetch failure aborts the phase at once and writes nothing: the
\* failing step leaves state.json and every page as they were, a fetch call
\* itself never writes, and from the failure to the next run's mode selection
\* the store stays the same, so the re-invocation starts from it; the state it
\* finds is the one persisted with the last page the failed run wrote.
C9_FailureLeavesTheStoreUntouched ==
    /\ [][ (outcome' = "failed" /\ outcome # "failed")
              => (store' = store /\ pc' = "idle" /\ result' = "false") ]_vars
    /\ [][ (pc \in FetchPcs \cup {"idle", "run"}) => store' = store ]_vars
    /\ [](Ended /\ outcome = "failed" =>
              /\ state_file = IF state_writes = 0 THEN state0
                              ELSE [kind |-> "ok",
                                    start |-> written[Len(written)] + batch_size,
                                    initial_download_complete |-> FALSE]
              /\ \A o \in Offsets : files[o] # files0[o] => o \in WrittenSet)

\* A Sync run has failed after writing a page.
C9_Witness ==
    /\ Ended
    /\ outcome = "failed"
    /\ mode = "sync"
    /\ written # << >>
    /\ files # files0

\* The offsets 0, batch_size, 2 * batch_size, ... from `first`, n of them.
Ascending(first, n) == [k \in 1..n |-> first + (k - 1) * batch_size]

\* C11: a Sync run that found new_items_count = live - local > 0 and ran to its
\* end wrote exactly ceil(new_items_count / 100) pages, at the offsets 0, 100,
\* 200, ... in that order, and changed no page at any other offset; while it
\* runs, what it has written is a prefix of that sequence.
C11_SyncWritesExactlyPagesToSync ==
    /\ (mode = "sync") => written = Ascending(0, Len(written))
    /\ (Ended /\ mode = "sync" /\ outcome = "done" /\ new_items_count > 0)
          => /\ new_items_count = live_total_count - local_total_count
             /\ (Len(written) - 1) * batch_size < new_items_count
             /\ new_items_count <= Len(written) * batch_size
             /\ \A o \in Offsets : files[o] # files0[o] => o \in WrittenSet

\* 199 new items: the pages 0 and 100 were written, in that order.
C11_Witness ==
    /\ Ended
    /\ mode = "sync"
    /\ outcome = "done"
    /\ new_items_count = 199
    /\ written = << 0, 100 >>

\* C12: run() selects Sync exactly when the persisted state has
\* initial_download_complete = true and FullDownload in every other case (state
\* missing, unreadable or corrupt, or the flag false), and the selection never
\* makes the run fail.
C12_ModeSelectionNeverFails ==
    [][ (pc = "run" /\ pc' # "run")
           => /\ mode' = IF state_file.kind = "ok"
                            /\ state_file.initial_download_complete
                         THEN "sync" ELSE "full"
              /\ outcome' # "failed" ]_vars

\* Every page of a history of `total` items is stored in `fs`, each as the
\* slice of that history, and nothing else is.
HoldsSlicesOf(fs, total) ==
    \A o \in Offsets :
        IF o < total
        THEN fs[o] = [present |-> TRUE, complete |-> TRUE, total_count |-> total]
        ELSE ~fs[o].present

\* C13: a Sync run that started from a store holding the slices of the history
\* as a completed FullDownload left it, and that ran to its end with nothing
\* new appearing since its probe, leaves every stored page holding the current
\* slice of the remote history.
C13_SyncLeavesCurrentSlices ==
    (Ended /\ mode = "sync" /\ outcome = "done"
       /\ local_total_count > 0
       /\ HoldsSlicesOf(files0, local_total_count)
       /\ remote_total = live_total_count)
        => HoldsSlicesOf(files, remote_total)

WritePcs == {"full_page", "full_dump", "sync_page", "sync_dump"}

\* C14 (as stated): the engine never writes a page offset whose document
\* already exists in the store.
C14_NeverWritesAnExistingPage ==
    pc \in {"full_page", "sync_page"} => ~files[start].present

\* C14 (amended): within one run every page offset is written at most once,
\* and a page the run has written stays the complete document it wrote.
C14_WrittenOnceWithinARun ==
    /\ \A i, j \in 1..Len(written) : i # j => written[i] # written[j]
    /\ pc \in WritePcs => start \notin WrittenSet
    /\ \A o \in WrittenSet : files[o].complete

\* A Sync run overwrote the existing page 0 and wrote page 100, each once.
C14_Witness ==
    /\ Ended
    /\ mode = "sync"
    /\ outcome = "done"
    /\ files0[0].present
    /\ written = << 0, 100 >>
    /\ local_total_count > 0

\* The messages of the engine that describe an abort.
AbortMessages == {"fatal", "paused"}

\* C15: when a run has ended by a failure or a cancellation, the engine has put
\* a message describing the abort on the log sink.
C15_AbortIsLogged ==
    (Ended /\ outcome \in Interrupted) => (log_queue \cap AbortMessages # {})

\* C16: once an attempt has received a status other than 200, 401, 403, 429 and
\* 5xx the fetch has failed: neither a backoff wait nor a further attempt
\* follows that response.
C16_UnexpectedStatusIsNotRetried ==
    response = "other" => (pc = "idle" /\ outcome = "failed" /\ result = "false")

\* C17: a reader that opens a page file at any moment finds no file, or a
\* complete document: never a truncated or partly written one.
C17_ReaderNeverSeesPartialPage ==
    \A o \in Offsets : files[o].present => files[o].complete

\* C18: an attempt that receives 200 with the login marker neither fails the
\* fetch nor returns the document: the wait initial_backoff_seconds * 2^attempt
\* follows and the loop goes on; the fetch fails only with all max_retries
\* attempts used; an attempt that receives a clean 200 returns the document.
C18_LoginMarkerIsRetried ==
    /\ [][ (pc = "fetch_get" /\ pc' # "fetch_get" /\ response' = "login200")
              => /\ pc' = "fetch_head"
                 /\ outcome' = "none"
                 /\ data' = NoData
                 /\ attempts' = attempts + 1
                 /\ waits' = Append(waits, config.initial_backoff_seconds
                                             * (2 ^ attempts)) ]_vars
    /\ [](response = "login200" /\ Ended /\ outcome = "failed"
              => (attempts = config.max_retries /\ result = "false"))
    /\ [][ (pc = "fetch_get" /\ pc' # "fetch_get" /\ response' = "ok200")
              => (pc' = ret /\ data'.ok /\ outcome' = "none") ]_vars

\* The third attempt of a call has received the login marker, the waits so far
\* being 5, 10 and 20.
C18_Witness ==
    /\ response = "login200"
    /\ pc = "fetch_head"
    /\ attempts = 3
    /\ waits = << 5, 10, 20 >>
    /\ data = NoData

\* C19: a FullDownload run whose probe reported total_count = 0 has ended
\* normally with the probe as its only fetch call, no page written and the
\* persisted state as it was.
C19_EmptyHistoryWritesNothing ==
    (mode = "full" /\ pc \notin {"run", "full_probe"}
       /\ data.ok /\ data.total_count = 0)
        => /\ pc = "idle"
           /\ outcome = "done"
           /\ result = "true"
           /\ ret = "full_probe"
           /\ written = << >>
           /\ state_writes = 0
           /\ files = files0
           /\ state_file = state0

\* A run resumed from offset 100 found an empty history.
C19_Witness ==
    /\ Ended
    /\ mode = "full"
    /\ data.ok
    /\ data.total_count = 0
    /\ "no_transactions" \in log_queue
    /\ state_file = [kind |-> "ok", start |-> batch_size,
                     initial_download_complete |-> FALSE]

\* The offset a FullDownload run resumes from: the one persisted when it began.
ResumeOffset == IF state0.kind = "ok" THEN state0.start ELSE 0

\* C20: a FullDownload run resumed from the persisted offset r writes pages at
\* r, r + 100, ... below total_count only, in ascending order; each fetch of a
\* page is for the offset after the last page written, never one below r; and
\* when it is issued the state persisted is (offset of the last page + 100,
\* false).
C20_ResumeWritesAscendingFromOffset ==
    (mode = "full" /\ pc # "run" /\ total_count > 0)
        => /\ written = Ascending(ResumeOffset, Len(written))
           /\ \A k \in 1..Len(written) : written[k] < total_count
           /\ (pc \in FetchPcs \cup {"full_page", "full_dump"} /\ ret = "full_page")
                 => /\ fetch_start = ResumeOffset + Len(written) * batch_size
                    /\ fetch_start < total_count
                    /\ fetch_count = batch_size
                    /\ start = fetch_start
                    /\ (written # << >>) =>
                          state_file = [kind |-> "ok", start |-> fetch_start,
                                        initial_download_complete |-> FALSE]
           /\ (pc = "full_save") => start = written[Len(written)]

\* A run resumed from offset 100 has written page 100 and persisted offset 200.
C20_Witness ==
    /\ mode = "full"
    /\ pc = "full_loop"
    /\ state0 = [kind |-> "ok", start |-> batch_size,
                 initial_download_complete |-> FALSE]
    /\ written = << batch_size >>
    /\ state_file = [kind |-> "ok", start |-> 2 * batch_size,
                     initial_download_complete |-> FALSE]

\* The engine polls the cancellation signal in this state and finds it set: at
\* the head of a page iteration, at the head of an attempt (which is also the
\* check after the backoff wait of the attempt before), or after the 2-second
\* wait before the request.
ObservesCancellation ==
    /\ stop_event
    /\ \/ pc = "fetch_head" /\ retry_i < config.max_retries
       \/ pc = "fetch_wait"
       \/ pc = "full_loop" /\ start < total_count
       \/ pc = "sync_loop" /\ sync_i < pages_to_sync

\* C21: the step in which the engine observes the cancellation signal as set
\* ends the run as a non-error stop, with no network request, no page write and
\* no state write; nothing happens in that run afterwards; in FullDownload the
\* page in flight is not written and the persisted next_offset is its offset.
C21_NothingAfterCancellationObserved ==
    /\ [][ (ObservesCancellation /\ pc' # pc)
              => /\ pc' = "idle"
                 /\ outcome' \in Cancelled
                 /\ result' = "true"
                 /\ attempts' = attempts
                 /\ written' = written
                 /\ state_writes' = state_writes
                 /\ store' = store ]_vars
    /\ [][ (pc = "idle" /\ pc' = "idle")
              => (store' = store /\ attempts' = attempts) ]_vars
    /\ [](Ended /\ outcome \in Cancelled /\ mode = "full" /\ total_count > 0
              => /\ start \notin WrittenSet
                 /\ start = IF state_file.kind = "ok" THEN state_file.start ELSE 0)

\* A Sync run observed the cancellation at the head of the second attempt of
\* the fetch of its second page.
C21_Witness ==
    /\ Ended
    /\ outcome = "stopped"
    /\ mode = "sync"
    /\ ret = "sync_page"
    /\ attempts = 1
    /\ written = << 0 >>

\* initial_download_complete as persisted
FlagIsTrue(sf) == sf.kind = "ok" /\ sf.initial_download_complete

\* C25: once initial_download_complete is persisted as true no step persists it
\* as false; a Sync run never writes state.json; and a run enters FullDownload
\* only while the flag is false.
C25_CompleteFlagIsMonotone ==
    /\ [][ FlagIsTrue(state_file) => FlagIsTrue(state_file') ]_vars
    /\ [][ (mode = "sync" /\ pc \notin {"idle", "run"})
              => state_file' = state_file ]_vars
    /\ [][ (pc = "run" /\ pc' = "fetch_head" /\ mode' = "full")
              => ~FlagIsTrue(state_file) ]_vars

\* A Sync run was cancelled after it wrote a page: the flag is still true.
C25_Witness ==
    /\ Ended
    /\ mode = "sync"
    /\ outcome = "paused"
    /\ written # << >>
    /\ FlagIsTrue(state_file)
    /\ state_file = state0

----------------------------------------------------------------------------
(* Properties of the year inference *)

MonthAt(j) == ActedOnMonth(transactions[j].acted_on_date)

AllMonthsParse == \A j \in 1..Len(transactions) : MonthAt(j) # 0

\* The positions up to i whose month is greater than the month before it,
\* 13 standing before the first row.
RollBacksUpTo(i) ==
    { j \in 1..i : MonthAt(j) > (IF j = 1 THEN 13 ELSE MonthAt(j - 1)) }

\* C10: for rows newest first whose acted-on months all parse, the year given
\* to row i is the current year minus the number of positions up to and
\* including i at which the month is greater than the month before it.
C10_YearIsNowMinusRollBacks ==
    (proc_pc = "done" /\ AllMonthsParse)
        => /\ Len(processed) = Len(transactions)
           /\ \A i \in 1..Len(transactions) :
                 processed[i].sold_purchased_date.year
                     = now_year - Cardinality(RollBacksUpTo(i))

\* Months [Mar, Jan, Dec, Nov] in year Y have the years [Y, Y, Y-1, Y-1].
C10_Witness ==
    /\ proc_pc = "done"
    /\ Len(transactions) = 4
    /\ [j \in 1..4 |-> transactions[j].acted_on_date]
          = << DateText("Mar"), DateText("Jan"), DateText("Dec"), DateText("Nov") >>
    /\ [j \in 1..4 |-> processed[j].sold_purchased_date.year]
          = << now_year, now_year, now_year - 1, now_year - 1 >>

\* The names of the months.
MonthNames == {"Jan", "Feb", "Mar", "Apr", "May", "Jun", "Jul", "Aug", "Sep", "Oct",
               "Nov", "Dec"}

\* A date text the pass cannot parse: empty, the N/A fallback, fewer than two
\* tokens, or a month field that is not the name of a month.
Unparseable(text) ==
    \/ text = << >>
    \/ text = << "N/A" >>
    \/ Cardinality({ k \in 1..Len(text) : text[k] # " " }) < 2
    \/ SplitSpace(text)[2] \notin MonthNames

\* The number of the month of a parseable date text.
MonthNumber(text) == month_map[SplitSpace(text)[2]]

ParsedUpTo(i) == { j \in 1..i : ~Unparseable(transactions[j].acted_on_date) }

\* The month of the last parseable row before row j, 13 when there is none.
MonthBefore(j) ==
    IF ParsedUpTo(j - 1) = {} THEN 13
    ELSE MonthNumber(transactions[CHOOSE k \in ParsedUpTo(j - 1) :
                        \A l \in ParsedUpTo(j - 1) : l <= k].acted_on_date)

\* C22: a row whose acted-on text is absent or unparseable is emitted with both
\* date fields as the raw texts, no year appended; and it leaves the last month
\* and the current year as they were: every parseable row has the year it would
\* have with the unparseable rows taken out, the current year minus the number
\* of parseable rows up to it whose month is greater than the month of the
\* parseable row before.
C22_UnparseableRowsAreLeftRaw ==
    (proc_pc = "done")
        => /\ Len(processed) = Len(transactions)
           /\ \A i \in 1..Len(transactions) :
                 IF Unparseable(transactions[i].acted_on_date)
                 THEN /\ processed[i].sold_purchased_date
                           = [text |-> transactions[i].acted_on_date, year |-> 0]
                      /\ processed[i].listed_date
                           = [text |-> transactions[i].listed_on_date, year |-> 0]
                 ELSE processed[i].sold_purchased_date.year
                        = now_year - Cardinality({ j \in ParsedUpTo(i) :
                              MonthNumber(transactions[j].acted_on_date)
                                  > MonthBefore(j) })

\* Acted-on texts [5 Mar, 5 Foo, 5 Dec]: the years are [Y, none, Y - 1], and
\* the middle row keeps its listed-on text without a year.
C22_Witness ==
    /\ proc_pc = "done"
    /\ Len(transactions) = 3
    /\ [j \in 1..3 |-> transactions[j].acted_on_date]
          = << DateText("Mar"), DateText("Foo"), DateText("Dec") >>
    /\ transactions[2].listed_on_date = DateText("Jun")
    /\ [j \in 1..3 |-> processed[j].sold_purchased_date.year]
          = << now_year, 0, now_year - 1 >>
    /\ processed[2].listed_date = [text |-> DateText("Jun"), year |-> 0]

\* C23: for a row given the acted-on year A whose listed-on month also parses,
\* the listed-on year is A - 1 when the listed-on month is greater than the
\* acted-on month and A otherwise: never later than A, at most one year earlier.
C23_ListedYearFollowsActedYear ==
    (proc_pc = "done")
        => \A i \in 1..Len(processed) :
              LET acted  == transactions[i].acted_on_date
                  listed == transactions[i].listed_on_date
                  A      == processed[i].sold_purchased_date.year
              IN  (A # 0 /\ ~Unparseable(acted) /\ ~Unparseable(listed))
                     => /\ processed[i].listed_date.text = listed
                        /\ processed[i].listed_date.year
                              = IF MonthNumber(listed) > MonthNumber(acted)
                                THEN A - 1 ELSE A
                        /\ processed[i].listed_date.year \in {A - 1, A}

\* Sold 5 Mar, listed 5 Jun: the year before; sold 5 Mar, listed 5 Mar and sold
\* 5 Dec, listed 5 Jun: the same year.
C23_Witness ==
    /\ proc_pc = "done"
    /\ Len(transactions) = 3
    /\ transactions = << [acted_on_date |-> DateText("Mar"), listed_on_date |-> DateText("Jun")],
                          [acted_on_date |-> DateText("Mar"), listed_on_date |-> DateText("Mar")],
                          [acted_on_date |-> DateText("Dec"), listed_on_date |-> DateText("Jun")] >>
    /\ [j \in 1..3 |-> processed[j].listed_date.year]
          = << now_year - 1, now_year, now_year - 1 >>

\* The rows of the readable pages among the first n of `names`, in that order.
RowsOfPages(names, n) ==
    LET F[k \in 0..n] ==
            IF k = 0 THEN << >>
            ELSE IF page_docs[names[k]].kind = "ok"
                 THEN F[k - 1] \o ParseHtmlResults(page_docs[names[k]].results_html)
                 ELSE F[k - 1]
    IN  F[n]

\* The value of a file name's digits.
Offset(name) ==
    LET F[n \in 0..Len(name)] == IF n = 0 THEN 0 ELSE F[n - 1] * 10 + name[n]
    IN  F[Len(name)]

\* The pages are taken in ascending numeric order of their offsets, each once.
ReadsInNumericOrder ==
    (proc_pc # "start")
        => /\ Len(sorted_files) = Len(listing)
           /\ { sorted_files[k] : k \in 1..Len(sorted_files) }
                 = { listing[k] : k \in 1..Len(listing) }
           /\ \A i, j \in 1..Len(sorted_files) :
                 i < j => Offset(sorted_files[i]) <= Offset(sorted_files[j])

\* The rows parsed are those of the readable pages in that order, and the
\* finalized rows are the parsed rows, one for one and in the same order.
RowsKeepTheirOrder ==
    /\ (proc_pc = "read") => transactions = RowsOfPages(sorted_files, file_i - 1)
    /\ (proc_pc \in {"ready", "done"})
          => transactions = RowsOfPages(sorted_files, Len(sorted_files))
    /\ (proc_pc = "done")
          => /\ Len(processed) = Len(transactions)
             /\ \A i \in 1..Len(processed) :
                   /\ processed[i].sold_purchased_date.text
                         = transactions[i].acted_on_date
                   /\ processed[i].listed_date.text
                         = transactions[i].listed_on_date

\* C24: the processing stage reads the pages in ascending numeric offset order,
\* emits one finalized row per parsed row in the order they were parsed, and
\* skips an unreadable page file without aborting the batch.
C24_OrderKeptAndUnreadablePagesSkipped ==
    /\ ReadsInNumericOrder
    /\ RowsKeepTheirOrder
    /\ proc_pc # "raised"

====
